---- MODULE Spec2Model ----
(***************************************************************************)
(* Model of the audit subsystem of nodelogger: the hash chain              *)
(* (src/audit/chain.ts), the audit logger (src/audit/logger.ts) and the    *)
(* memory store, file store and sink writer (audit/store.ts).              *)
(*                                                                         *)
(* Digests are modelled as collision-free: a digest is the sequence of     *)
(* numbers that was hashed, prefixed by the code of the algorithm.         *)
(***************************************************************************)
EXTENDS Integers, Sequences, FiniteSets, TLC

\* ------------------------------------------------------------------ bounds
MaxEntries == 3      \* addEntry calls on the stand-alone chain
MaxTime == 2         \* largest value of the clock (new Date())
NumEvents == 2       \* distinct event contents
NumLogEvents == 1    \* distinct event contents passed to AuditLogger.log
MaxWrites == 3       \* FileStore.write calls made directly on a file store
MaxLogs == 3         \* AuditLogger.log calls
BufferSize == 2      \* FileStore bufferSize of the modelled configuration
MemMaxSize == 2      \* MemoryStore maxSize of the modelled configuration

Events == 1..NumEvents
LogEvents == 1..NumLogEvents
Algorithms == {"sha256", "sha512"}

VARIABLES
  now,          \* the clock read by new Date()
  chain,        \* HashChain instance: algorithm, previousHash, sequence (isNull: logger.chain === null)
  produced,     \* the entries given chain data by addEntry, in call order
  held,         \* the entry list a caller hands to verifyChain
  tampered,     \* id of the entry of held whose event was changed, 0 if none
  entries,      \* MemoryStore.entries
  buffer,       \* FileStore.buffer
  appends,      \* fs.promises.appendFile calls in progress: the batch and who awaits it
  file,         \* the lines of the file at FileStore.filePath, one entry per line
  flushTimer,   \* FileStore.flushTimer is set (not null)
  appendFailed, \* some appendFile has failed
  unsurfaced,    \* appendFile failures that rejected no write(), query() or close()
  wpc,          \* position of each direct FileStore.write call
  qpc,          \* position of the FileStore.query call
  qSeen,        \* ids of the entries whose write() had resolved when query() was called
  qResult,      \* ids of the entries the query returned
  cpc,          \* position of the FileStore.close call
  cSeen,        \* ids of the entries passed to write() before close() was called
  config,       \* AuditLogger.config: hashChain, hashAlgorithm, sinks, store type
  pc,           \* position of each AuditLogger.log call
  logEntry,     \* the entry each log call built
  storeDone,    \* the log calls whose store.write promise has fulfilled
  sinkState,    \* per log call and sink: the promise writeToSink returned
  sinkCalls,    \* per log call and sink: how often the sink was invoked
  edits,        \* changes made to held entries after addEntry produced them
  lastOp,       \* the operation a caller performed last
  saved,        \* the chain state a caller persisted from getState()
  storeMaxSize, \* MemoryStore.maxSize
  lastQuery,    \* the AuditQuery of the last query(), until the caller's next write
  lastResult,   \* the AuditQueryResult it returned
  damaged,      \* the lines of the file that no longer hold what was appended, and how
  logged,       \* the events passed to log(), in call order
  compliance,   \* the arguments of AuditLogger.withCompliance: preset and overrides
  plainLogger   \* the plain Logger: its config, its batch, the lines written, the last call

chainVars == <<now, chain, produced, held, tampered>>
fileVars == <<buffer, appends, file, flushTimer, appendFailed, unsurfaced>>
callVars == <<wpc, qpc, qSeen, qResult, cpc, cSeen>>
logVars == <<config, pc, logEntry, storeDone, sinkState, sinkCalls>>
opVars == <<edits, lastOp, saved, storeMaxSize, lastQuery, lastResult, damaged, logged,
           compliance, plainLogger>>
vars == <<chainVars, entries, fileVars, callVars, logVars, opVars>>

\* ------------------------------------------------------------ HashChain
AlgCode(algorithm) == IF algorithm = "sha256" THEN 256 ELSE 512

\* createHash(algorithm).update("GENESIS").digest("hex")
computeGenesisHash(algorithm) == <<AlgCode(algorithm), 0>>

\* createHash(algorithm).update(JSON.stringify({id, timestamp, event, previousHash}))
computeHash(algorithm, entry, previousHash) ==
  <<AlgCode(algorithm), 1, entry.id, entry.timestamp, entry.event>> \o previousHash

\* entry.chain === undefined
NoChain == [present |-> FALSE, hash |-> <<>>, previousHash |-> <<>>, sequence |-> 0]

NewHashChain(algorithm) ==
  [isNull |-> FALSE, algorithm |-> algorithm,
   previousHash |-> computeGenesisHash(algorithm), sequence |-> 0]

NullChain == [isNull |-> TRUE, algorithm |-> "sha256", previousHash |-> <<>>, sequence |-> 0]

\* a plausible slip: the running previousHash is not advanced
addEntryStalePrevious(ch, entry) ==
  LET hash == computeHash(ch.algorithm, entry, ch.previousHash)
  IN [chainEntry |-> [present |-> TRUE, hash |-> hash,
                      previousHash |-> ch.previousHash, sequence |-> ch.sequence],
      chain |-> [ch EXCEPT !.sequence = ch.sequence + 1]]

\* addEntry: the ChainEntry returned and the chain's state afterwards
addEntry(ch, entry) ==
  LET hash == computeHash(ch.algorithm, entry, ch.previousHash)
  IN [chainEntry |-> [present |-> TRUE, hash |-> hash,
                      previousHash |-> ch.previousHash, sequence |-> ch.sequence],
      chain |-> [ch EXCEPT !.previousHash = hash, !.sequence = ch.sequence + 1]]

\* (a.chain?.sequence ?? 0)
SeqKey(e) == IF e.chain.present THEN e.chain.sequence ELSE 0

\* insert e behind every element whose key is not larger (the sort is stable)
RECURSIVE InsertByKey(_, _)
InsertByKey(e, s) ==
  IF s = <<>> THEN <<e>>
  ELSE IF SeqKey(s[Len(s)]) <= SeqKey(e) THEN Append(s, e)
  ELSE Append(InsertByKey(e, SubSeq(s, 1, Len(s) - 1)), s[Len(s)])

RECURSIVE SortFold(_, _)
SortFold(s, acc) ==
  IF s = <<>> THEN acc ELSE SortFold(Tail(s), InsertByKey(Head(s), acc))

\* a plausible slip: the input order is trusted
SortBySequenceTrusting(list) == list

\* [...entries].sort((a, b) => (a.chain?.sequence ?? 0) - (b.chain?.sequence ?? 0))
SortBySequence(list) == SortFold(list, <<>>)

Valid == [valid |-> TRUE, brokenAt |-> {}, error |-> {}]

\* a plausible slip: a failure result that leaves out the error text
BrokenWithoutError(i, reason) == [valid |-> FALSE, brokenAt |-> {i}, error |-> {}]

\* { valid: false, brokenAt: i, error: reason }
Broken(i, reason) == [valid |-> FALSE, brokenAt |-> {i}, error |-> {reason}]

\* the loop of verifyChain from index i (0-based) on
RECURSIVE VerifyFrom(_, _)
VerifyFrom(sorted, i) ==
  IF i >= Len(sorted) THEN Valid
  ELSE LET current == sorted[i + 1]
           previous == sorted[i]
       IN IF ~current.chain.present \/ ~previous.chain.present
            THEN Broken(i, "Missing chain data")
          ELSE IF current.chain.previousHash # previous.chain.hash
            THEN Broken(i, "Chain broken")
          ELSE IF current.chain.sequence # previous.chain.sequence + 1
            THEN Broken(i, "Sequence gap")
          ELSE VerifyFrom(sorted, i + 1)

\* a plausible slip: the genesis check of the first entry is left out
verifyChainNoGenesis(algorithm, list) ==
  IF Len(list) = 0 THEN Valid
  ELSE LET sorted == SortBySequence(list)
           first == sorted[1]
       IN IF ~first.chain.present THEN Broken(0, "Missing chain data")
          ELSE VerifyFrom(sorted, 1)

\* a plausible slip: the first entry of the list must link to the genesis
\* digest, whatever its sequence
verifyChainGenesisAlways(algorithm, list) ==
  IF Len(list) = 0 THEN Valid
  ELSE LET sorted == SortBySequence(list)
           first == sorted[1]
       IN IF ~first.chain.present THEN Broken(0, "Missing chain data")
          ELSE IF first.chain.previousHash # computeGenesisHash(algorithm)
            THEN Broken(0, "Invalid genesis hash")
          ELSE VerifyFrom(sorted, 1)

\* HashChain.verifyChain of a chain hashing with `algorithm`
verifyChain(algorithm, list) ==
  IF Len(list) = 0 THEN Valid
  ELSE LET sorted == SortBySequence(list)
           first == sorted[1]
       IN IF ~first.chain.present THEN Broken(0, "Missing chain data")
          ELSE IF first.chain.sequence = 0
                  /\ first.chain.previousHash # computeGenesisHash(algorithm)
            THEN Broken(0, "Invalid genesis hash")
          ELSE VerifyFrom(sorted, 1)

\* a plausible slip: the stored link is compared, the digest not recomputed
verifyEntryLinkOnly(algorithm, entry, expectedPreviousHash) ==
  IF ~entry.chain.present THEN FALSE
  ELSE entry.chain.previousHash = expectedPreviousHash

\* HashChain.verifyEntry
verifyEntry(algorithm, entry, expectedPreviousHash) ==
  IF ~entry.chain.present THEN FALSE
  ELSE computeHash(algorithm, entry, expectedPreviousHash) = entry.chain.hash

\* HashChain.getState
getState(ch) == [previousHash |-> ch.previousHash, sequence |-> ch.sequence]

\* a plausible slip: the sequence counter is not restored
restoreStateHashOnly(ch, previousHash, sequence) ==
  [ch EXCEPT !.previousHash = previousHash]

\* HashChain.restoreState: the chain afterwards
restoreState(ch, previousHash, sequence) ==
  [ch EXCEPT !.previousHash = previousHash, !.sequence = sequence]

\* ------------------------------------------------ stores and sink writer
Logs == 1..MaxLogs
Writes == 1..MaxWrites

\* config.sinks of the modelled logger
ConfiguredSinks == <<"console", "custom">>
SinkIds == 1..Len(ConfiguredSinks)

\* the stores as constructed: nothing written, the flush timer running
IdleStores ==
  /\ entries = <<>>
  /\ buffer = <<>>
  /\ appends = {}
  /\ file = <<>>
  /\ flushTimer = TRUE
  /\ appendFailed = FALSE
  /\ unsurfaced = 0
  /\ wpc = [w \in Writes |-> "idle"]
  /\ qpc = "idle"
  /\ qSeen = {}
  /\ qResult = {}
  /\ cpc = "idle"
  /\ cSeen = {}

\* an AuditQuery without any field: {}
NoQuery ==
  [timeStart |-> {}, timeEnd |-> {}, eventTypes |-> <<>>, actions |-> <<>>,
   outcomes |-> <<>>, actorIds |-> <<>>, resourceTypes |-> <<>>, resourceIds |-> <<>>,
   tags |-> <<>>, search |-> <<>>, limit |-> {}, offset |-> {}, sort |-> {}]

\* no query has returned yet
NoResult == [entries |-> <<>>, total |-> 0, hasMore |-> FALSE]

\* no caller has persisted a chain state
\* (after: the number of addEntry calls made before the state was taken)
NoState == [present |-> FALSE, previousHash |-> <<>>, sequence |-> 0, after |-> 0]

\* no operation was performed yet, the memory store has the modelled size
\* no preset asked for
NoCompliance == [preset |-> "none", overrides |-> <<>>]

\* a plain Logger that has not been initialised
NoLogger ==
  [level |-> 2, sampleRate |-> 100, batchWrites |-> FALSE, batch |-> <<>>,
   batchTimeout |-> FALSE, output |-> <<>>, made |-> 0, call |-> -1, wrote |-> 0]

IdleOps ==
  /\ edits = 0
  /\ lastOp = "none"
  /\ saved = NoState
  /\ storeMaxSize = MemMaxSize
  /\ lastQuery = NoQuery
  /\ lastResult = NoResult
  /\ damaged = <<>>
  /\ logged = <<>>
  /\ compliance = NoCompliance
  /\ plainLogger = NoLogger

\* a logger on which log was not called yet
IdleLogger ==
  /\ config = [hashChain |-> TRUE, hashAlgorithm |-> chain.algorithm, store |-> "memory"]
  /\ pc = [c \in Logs |-> "idle"]
  /\ logEntry = [c \in Logs |-> [id |-> 0, timestamp |-> 0, event |-> 1, chain |-> NoChain]]
  /\ storeDone = {}
  /\ sinkState = [c \in Logs |-> [s \in SinkIds |-> "notcalled"]]
  /\ sinkCalls = [c \in Logs |-> [s \in SinkIds |-> 0]]

\* ------------------------------------------- the stand-alone chain
InitChain ==
  /\ now = 0
  /\ \E a \in Algorithms : chain = NewHashChain(a)
  /\ produced = <<>>
  /\ held = <<>>
  /\ tampered = 0
  /\ IdleStores
  /\ IdleLogger
  /\ IdleOps

\* a caller builds an entry (fresh id, current time) and calls addEntry
AddEntry(ev, dt) ==
  /\ Len(produced) < MaxEntries
  /\ now + dt <= MaxTime
  /\ LET t == now + dt
         bare == [id |-> Len(produced) + 1, timestamp |-> t, event |-> ev, chain |-> NoChain]
         r == addEntry(chain, bare)
         entry == [bare EXCEPT !.chain = r.chainEntry]
     IN /\ now' = t
        /\ chain' = r.chain
        /\ produced' = Append(produced, entry)
        /\ held' = Append(held, entry)
  /\ UNCHANGED <<opVars, tampered, entries, fileVars, callVars, logVars>>

\* the caller reorders the list it will hand to verifyChain
Swap(i) ==
  /\ i \in 1..(Len(held) - 1)
  /\ held' = [held EXCEPT ![i] = held[i + 1], ![i + 1] = held[i]]
  /\ UNCHANGED <<opVars, now, chain, produced, tampered, entries, fileVars, callVars, logVars>>

\* the event content of one held entry is changed, its chain data kept
Tamper(i, ev) ==
  /\ tampered = 0
  /\ i \in 1..Len(held)
  /\ ev # held[i].event
  /\ held' = [held EXCEPT ![i].event = ev]
  /\ tampered' = held[i].id
  /\ UNCHANGED <<opVars, now, chain, produced, entries, fileVars, callVars, logVars>>

NextChain ==
  \/ \E ev \in Events, dt \in {0, 1} : AddEntry(ev, dt)
  \/ \E i \in 1..MaxEntries : Swap(i)
  \/ \E i \in 1..MaxEntries, ev \in Events : Tamper(i, ev)

SpecChain == InitChain /\ [][NextChain]_vars

\* ------------------------------------- persisting and restoring the chain
\* the caller persists what getState returns
GetState ==
  /\ saved' = [present |-> TRUE, previousHash |-> getState(chain).previousHash,
               sequence |-> getState(chain).sequence, after |-> Len(produced)]
  /\ lastOp' = "getState"
  /\ UNCHANGED <<chainVars, entries, fileVars, callVars, logVars,
                 edits, storeMaxSize, compliance, plainLogger,
                 damaged, logged, lastQuery, lastResult>>

\* a restart: a fresh HashChain of the same algorithm is given the state
\* persisted after the last addEntry
RestoreState ==
  /\ saved.present
  /\ saved.after = Len(produced)
  /\ chain' = restoreState(NewHashChain(chain.algorithm), saved.previousHash, saved.sequence)
  /\ lastOp' = "restoreState"
  /\ UNCHANGED <<now, produced, held, tampered, entries, fileVars, callVars, logVars,
                 edits, saved, storeMaxSize, compliance, plainLogger,
                 damaged, logged, lastQuery, lastResult>>

NextResume ==
  \/ \E ev \in Events, dt \in {0, 1} : AddEntry(ev, dt)
  \/ GetState
  \/ RestoreState

SpecResume == InitChain /\ [][NextResume]_vars

\* ------------------------- verifyChain and verifyEntry on arbitrary input
\* The list handed to verifyChain need not be what addEntry produced: a
\* caller may hand over entries that lost their chain data, entries whose
\* id, timestamp, sequence or link differ, or a list with entries missing.
MaxEdits == 2        \* changes made to the held list

\* the digests a held entry can name as its link
HashPool ==
  {computeGenesisHash(a) : a \in Algorithms} \cup {produced[k].chain.hash : k \in 1..Len(produced)}

\* one held entry is replaced by a changed copy
Edit(i, changed) ==
  /\ edits < MaxEdits
  /\ i \in 1..Len(held)
  /\ changed # held[i]
  /\ held' = [held EXCEPT ![i] = changed]
  /\ edits' = edits + 1
  /\ UNCHANGED <<now, chain, produced, tampered, entries, fileVars, callVars, logVars,
                 lastOp, saved, storeMaxSize, compliance, plainLogger,
                 damaged, logged, lastQuery, lastResult>>

\* an entry without chain data (entry.chain === undefined)
StripChain(i) == i \in 1..Len(held) /\ Edit(i, [held[i] EXCEPT !.chain = NoChain])

SetSequence(i, n) ==
  /\ i \in 1..Len(held)
  /\ held[i].chain.present
  /\ Edit(i, [held[i] EXCEPT !.chain.sequence = n])

SetPreviousHash(i, h) ==
  /\ i \in 1..Len(held)
  /\ held[i].chain.present
  /\ Edit(i, [held[i] EXCEPT !.chain.previousHash = h])

SetId(i, id) == i \in 1..Len(held) /\ Edit(i, [held[i] EXCEPT !.id = id])

SetTimestamp(i, t) == i \in 1..Len(held) /\ Edit(i, [held[i] EXCEPT !.timestamp = t])

SetEvent(i, ev) == i \in 1..Len(held) /\ Edit(i, [held[i] EXCEPT !.event = ev])

\* one entry is left out of the list
Remove(i) ==
  /\ edits < MaxEdits
  /\ i \in 1..Len(held)
  /\ held' = SubSeq(held, 1, i - 1) \o SubSeq(held, i + 1, Len(held))
  /\ edits' = edits + 1
  /\ UNCHANGED <<now, chain, produced, tampered, entries, fileVars, callVars, logVars,
                 lastOp, saved, storeMaxSize, compliance, plainLogger,
                 damaged, logged, lastQuery, lastResult>>

\* (the entries are produced at one clock value: their timestamps differ
\* only where SetTimestamp changed one)
NextVerify ==
  \/ \E ev \in Events : AddEntry(ev, 0)
  \/ \E i \in 1..MaxEntries : Swap(i)
  \/ \E i \in 1..MaxEntries : StripChain(i)
  \/ \E i \in 1..MaxEntries, n \in 0..MaxEntries : SetSequence(i, n)
  \/ \E i \in 1..MaxEntries, h \in HashPool : SetPreviousHash(i, h)
  \/ \E i \in 1..MaxEntries, id \in 1..MaxEntries : SetId(i, id)
  \/ \E i \in 1..MaxEntries, t \in 0..MaxTime : SetTimestamp(i, t)
  \/ \E i \in 1..MaxEntries, ev \in Events : SetEvent(i, ev)
  \/ \E i \in 1..MaxEntries : Remove(i)

SpecVerify == InitChain /\ [][NextVerify]_vars

\* ------------------------------------------------------------ FileStore
\* who awaits an appendFile: a write, query or close call, a log call, or
\* nobody (the interval timer calls flush() and drops its promise)
Owner(kind, id) == [kind |-> kind, id |-> id]

\* the promise of flush() settles: its awaiter resumes, or nobody handles it
Settle(owner, ok) ==
  /\ wpc' = IF owner.kind = "write"
              THEN [wpc EXCEPT ![owner.id] = IF ok THEN "resolved" ELSE "rejected"]
              ELSE wpc
  /\ qpc' = IF owner.kind = "query" THEN (IF ok THEN "reading" ELSE "rejected") ELSE qpc
  /\ cpc' = IF owner.kind = "close" THEN (IF ok THEN "resolved" ELSE "rejected") ELSE cpc
  /\ pc' = IF owner.kind = "log"
             THEN [pc EXCEPT ![owner.id] = IF ok THEN "storeResolved" ELSE "rejected"]
             ELSE pc
  /\ storeDone' = IF owner.kind = "log" /\ ok THEN storeDone \cup {owner.id} ELSE storeDone
  /\ unsurfaced' = IF owner.kind = "timer" /\ ~ok THEN unsurfaced + 1 ELSE unsurfaced

\* FileStore.flush up to its await, on a buffer holding buf
flush(buf, owner) ==
  IF buf = <<>>
    THEN /\ buffer' = buf
         /\ appends' = appends
    ELSE /\ buffer' = <<>>
         /\ appends' = appends \cup {[batch |-> buf, owner |-> owner]}

\* write() awaits a flush when the push fills the buffer
WriteFlushes(e) == Len(Append(buffer, e)) >= BufferSize

\* FileStore.write up to its await
FileStoreWrite(e, owner) ==
  IF WriteFlushes(e)
    THEN flush(Append(buffer, e), owner)
    ELSE /\ buffer' = Append(buffer, e)
         /\ appends' = appends

\* the entry a direct caller of FileStore.write passes in its w-th call
FileEntry(w) == [id |-> w, timestamp |-> now, event |-> 1, chain |-> NoChain]

\* FileStore.write(entry), called directly
Write(w) ==
  /\ wpc[w] = "idle"
  /\ IF w = 1 THEN TRUE ELSE wpc[w - 1] # "idle"
  /\ FileStoreWrite(FileEntry(w), Owner("write", w))
  /\ wpc' = [wpc EXCEPT ![w] = IF WriteFlushes(FileEntry(w)) THEN "awaitFlush" ELSE "resolved"]
  /\ UNCHANGED <<opVars, chainVars, entries, file, flushTimer, appendFailed, unsurfaced,
                 qpc, qSeen, qResult, cpc, cSeen, logVars>>

\* a plausible slip: the constructor does not start the timer
TimerNeverFires ==
  /\ FALSE
  /\ UNCHANGED vars

\* the setInterval callback: this.flush(), not awaited
TimerFlush ==
  /\ flushTimer
  /\ buffer # <<>>
  /\ flush(buffer, Owner("timer", 0))
  /\ UNCHANGED <<opVars, chainVars, entries, file, flushTimer, appendFailed, unsurfaced,
                 callVars, logVars>>

\* an appendFile completes: the lines are in the file
AppendDone(a) ==
  /\ a \in appends
  /\ appends' = appends \ {a}
  /\ file' = file \o a.batch
  /\ Settle(a.owner, TRUE)
  /\ UNCHANGED <<opVars, chainVars, entries, buffer, flushTimer, appendFailed,
                 qSeen, qResult, cSeen, config, logEntry, sinkState, sinkCalls>>

\* an appendFile fails: flush() rejects, the batch is in neither buffer nor file
AppendFail(a) ==
  /\ a \in appends
  /\ appends' = appends \ {a}
  /\ appendFailed' = TRUE
  /\ Settle(a.owner, FALSE)
  /\ UNCHANGED <<opVars, chainVars, entries, buffer, file, flushTimer,
                 qSeen, qResult, cSeen, config, logEntry, sinkState, sinkCalls>>

\* FileStore.query up to the await of flush()
QueryCall ==
  /\ qpc = "idle"
  /\ qSeen' = {w \in Writes : wpc[w] = "resolved"}
  /\ flush(buffer, Owner("query", 0))
  /\ qpc' = IF buffer = <<>> THEN "reading" ELSE "awaitFlush"
  /\ UNCHANGED <<opVars, chainVars, entries, file, flushTimer, appendFailed, unsurfaced,
                 wpc, qResult, cpc, cSeen, logVars>>

\* FileStore.query after flush(): the file is read and every line parsed
QueryRead ==
  /\ qpc = "reading"
  /\ qResult' = {file[i].id : i \in 1..Len(file)}
  /\ qpc' = "resolved"
  /\ UNCHANGED <<opVars, chainVars, entries, fileVars, wpc, qSeen, cpc, cSeen, logVars>>

\* FileStore.close up to the await of flush()
Close ==
  /\ cpc = "idle"
  /\ cSeen' = {w \in Writes : wpc[w] # "idle"}
  /\ flushTimer' = FALSE
  /\ flush(buffer, Owner("close", 0))
  /\ cpc' = IF buffer = <<>> THEN "resolved" ELSE "awaitFlush"
  /\ UNCHANGED <<opVars, chainVars, entries, file, appendFailed, unsurfaced,
                 wpc, qpc, qSeen, qResult, logVars>>

InitFile ==
  /\ now = 0
  /\ chain = NullChain
  /\ produced = <<>>
  /\ held = <<>>
  /\ tampered = 0
  /\ IdleStores
  /\ IdleLogger
  /\ IdleOps

NextFile ==
  \/ \E w \in Writes : Write(w)
  \/ TimerFlush
  \/ \E a \in appends : AppendDone(a)
  \/ \E a \in appends : AppendFail(a)
  \/ QueryCall
  \/ QueryRead
  \/ Close

SpecFile == InitFile /\ [][NextFile]_vars

\* the file store left to itself: the interval timer keeps firing while it
\* is set and the buffer has entries, and an appendFile in progress ends
SpecFileLive ==
  /\ InitFile
  /\ [][NextFile]_vars
  /\ WF_vars(TimerFlush)
  /\ WF_vars(\E a \in appends : AppendDone(a))

\* ---------------------------------------------------------- MemoryStore
\* Array.prototype.slice(-n): the last n elements; slice(-0) is slice(0)
SliceLast(list, n) ==
  IF n = 0 \/ n >= Len(list) THEN list ELSE SubSeq(list, Len(list) - n + 1, Len(list))

\* a plausible slip: one Date object is shared by the entries of the array
MemoryStoreWriteRestamp(list, maxSize, e) ==
  LET pushed == Append([k \in 1..Len(list) |-> [list[k] EXCEPT !.timestamp = e.timestamp]], e)
  IN IF Len(pushed) > maxSize THEN SliceLast(pushed, maxSize) ELSE pushed

\* a plausible slip: unshift instead of push
MemoryStoreWritePrepend(list, maxSize, e) ==
  LET pushed == <<e>> \o list
  IN IF Len(pushed) > maxSize THEN SliceLast(pushed, maxSize) ELSE pushed

\* MemoryStore.write: the entries array afterwards
MemoryStoreWrite(list, maxSize, e) ==
  LET pushed == Append(list, e)
  IN IF Len(pushed) > maxSize THEN SliceLast(pushed, maxSize) ELSE pushed

\* MemoryStore.close / MemoryStore.clear: this.entries = []
MemoryStoreClose(list) == <<>>

\* Text (action, description, search) is a sequence of characters
ToLowerCase(text) ==
  [k \in 1..Len(text) |->
     IF text[k] = "A" THEN "a" ELSE IF text[k] = "B" THEN "b" ELSE text[k]]

\* String.prototype.includes
TextIncludes(text, part) ==
  \E k \in 0..(Len(text) - Len(part)) : SubSeq(text, k + 1, k + Len(part)) = part

\* a plausible slip: only the first listed value is compared
IncludesFirst(list, v) == Len(list) > 0 /\ list[1] = v

\* Array.prototype.includes
Includes(list, v) == \E k \in 1..Len(list) : list[k] = v

\* the filters of MemoryStore.query, applied one after the other; a filter
\* whose query field is missing or empty is not applied
FilterEntries(list, q) ==
  LET afterStart(e) == \A t \in q.timeStart : e.timestamp >= t
      beforeEnd(e) == \A t \in q.timeEnd : e.timestamp <= t
      ofType(e) == Includes(q.eventTypes, e.event.type)
      ofAction(e) == Includes(q.actions, e.event.action)
      ofOutcome(e) == Includes(q.outcomes, e.event.outcome)
      ofActor(e) ==
        \/ e.event.actorId # "" /\ Includes(q.actorIds, e.event.actorId)
        \/ e.event.actor.id # "" /\ Includes(q.actorIds, e.event.actor.id)
      ofResourceType(e) ==
        \/ e.event.resourceType # "" /\ Includes(q.resourceTypes, e.event.resourceType)
        \/ e.event.resource.type # "" /\ Includes(q.resourceTypes, e.event.resource.type)
      ofResourceId(e) ==
        \/ e.event.resourceId # "" /\ Includes(q.resourceIds, e.event.resourceId)
        \/ e.event.resource.id # "" /\ Includes(q.resourceIds, e.event.resource.id)
      tagged(e) == \E k \in 1..Len(e.event.tags) : Includes(q.tags, e.event.tags[k])
      found(e) ==
        \/ TextIncludes(ToLowerCase(e.event.description), ToLowerCase(q.search))
        \/ TextIncludes(ToLowerCase(e.event.action), ToLowerCase(q.search))
      r1 == IF q.timeStart # {} THEN SelectSeq(list, afterStart) ELSE list
      r2 == IF q.timeEnd # {} THEN SelectSeq(r1, beforeEnd) ELSE r1
      r3 == IF Len(q.eventTypes) # 0 THEN SelectSeq(r2, ofType) ELSE r2
      r4 == IF Len(q.actions) # 0 THEN SelectSeq(r3, ofAction) ELSE r3
      r5 == IF Len(q.outcomes) # 0 THEN SelectSeq(r4, ofOutcome) ELSE r4
      r6 == IF Len(q.actorIds) # 0 THEN SelectSeq(r5, ofActor) ELSE r5
      r7 == IF Len(q.resourceTypes) # 0 THEN SelectSeq(r6, ofResourceType) ELSE r6
      r8 == IF Len(q.resourceIds) # 0 THEN SelectSeq(r7, ofResourceId) ELSE r7
      r9 == IF Len(q.tags) # 0 THEN SelectSeq(r8, tagged) ELSE r8
  IN IF Len(q.search) # 0 THEN SelectSeq(r9, found) ELSE r9

\* the comparator of results.sort: negative, zero or positive
CompareTimestamps(a, b, sortOrder) ==
  LET diff == a.timestamp - b.timestamp
  IN IF sortOrder = "asc" THEN diff ELSE 0 - diff

\* insert e behind every element the comparator does not put after it
RECURSIVE InsertByTimestamp(_, _, _)
InsertByTimestamp(e, s, sortOrder) ==
  IF s = <<>> THEN <<e>>
  ELSE IF CompareTimestamps(s[Len(s)], e, sortOrder) <= 0 THEN Append(s, e)
  ELSE Append(InsertByTimestamp(e, SubSeq(s, 1, Len(s) - 1), sortOrder), s[Len(s)])

\* results.sort(...): Array.prototype.sort is stable
RECURSIVE SortByTimestamp(_, _, _)
SortByTimestamp(s, acc, sortOrder) ==
  IF s = <<>> THEN acc
  ELSE SortByTimestamp(Tail(s), InsertByTimestamp(Head(s), acc, sortOrder), sortOrder)

\* query.limit ?? 100
DefaultLimit == 100

\* a plausible slip: the element at the end index is taken too
SliceInclusive(list, start, end) ==
  IF start >= Len(list) THEN <<>>
  ELSE SubSeq(list, start + 1, IF end + 1 < Len(list) THEN end + 1 ELSE Len(list))

\* Array.prototype.slice(start, end) for start, end >= 0
Slice(list, start, end) ==
  IF start >= Len(list) \/ end <= start THEN <<>>
  ELSE SubSeq(list, start + 1, IF end < Len(list) THEN end ELSE Len(list))

\* MemoryStore.query: the AuditQueryResult
MemoryStoreQuery(list, q) ==
  LET filtered == FilterEntries(list, q)
      sortOrder == IF q.sort = {} THEN "desc" ELSE CHOOSE o \in q.sort : TRUE
      results == SortByTimestamp(filtered, <<>>, sortOrder)
      total == Len(results)
      offset == IF q.offset = {} THEN 0 ELSE CHOOSE n \in q.offset : TRUE
      limit == IF q.limit = {} THEN DefaultLimit ELSE CHOOSE n \in q.limit : TRUE
      page == Slice(results, offset, offset + limit)
  IN [entries |-> page, total |-> total, hasMore |-> offset + Len(page) < total]

\* ----------------------------------------------------------- SinkWriter
\* what writeToSink can have done when it returns its promise: the console
\* sink has no await; the others may throw before, or suspend at, their await
SinkOutcomes(kind) ==
  IF kind = "console" THEN {"fulfilled", "rejected"} ELSE {"pending", "fulfilled", "rejected"}

Settled(st) == st \in {"fulfilled", "rejected"}

\* a plausible slip: the sinks are awaited one after the other, so the
\* first failure ends the loop
InvokeSinksUntilFailure(calls, outcomes) ==
  LET reached(s) == \A r \in 1..(s - 1) : outcomes[r] = "fulfilled"
  IN [state |-> [s \in SinkIds |-> IF reached(s) THEN outcomes[s] ELSE "notcalled"],
      calls |-> [s \in SinkIds |-> IF reached(s) THEN calls[s] + 1 ELSE calls[s]]]

\* this.sinks.map((sink) => this.writeToSink(sink, entry)): every sink is
\* invoked, whatever the ones before it did
InvokeSinks(calls, outcomes) ==
  [state |-> [s \in SinkIds |-> outcomes[s]],
   calls |-> [s \in SinkIds |-> calls[s] + 1]]

\* a plausible slip: Promise.race / Promise.any instead of allSettled
AnySettled(states) == \E s \in SinkIds : Settled(states[s])

\* await Promise.allSettled(promises) resumes once every promise has settled
AllSettled(states) == \A s \in SinkIds : Settled(states[s])

\* ---------------------------------------------------------- AuditLogger
\* new AuditLogger(config): the chain exists when config.hashChain is set
Init ==
  /\ now = 0
  /\ \E h \in BOOLEAN, a \in Algorithms, st \in {"memory", "file"} :
       /\ config = [hashChain |-> h, hashAlgorithm |-> a, store |-> st]
       /\ chain = IF h THEN NewHashChain(a) ELSE NullChain
  /\ produced = <<>>
  /\ held = <<>>
  /\ tampered = 0
  /\ IdleStores
  /\ IdleOps
  /\ pc = [c \in Logs |-> "idle"]
  /\ logEntry = [c \in Logs |-> [id |-> 0, timestamp |-> 0, event |-> 1, chain |-> NoChain]]
  /\ storeDone = {}
  /\ sinkState = [c \in Logs |-> [s \in SinkIds |-> "notcalled"]]
  /\ sinkCalls = [c \in Logs |-> [s \in SinkIds |-> 0]]

\* the entry log() builds, with chain data when the logger has a chain
BuildEntry(c, ev, t) ==
  LET bare == [id |-> c, timestamp |-> t, event |-> ev, chain |-> NoChain]
  IN IF chain.isNull THEN bare ELSE [bare EXCEPT !.chain = addEntry(chain, bare).chainEntry]

\* AuditLogger.log up to `await this.store.write(entry)`: the entry is
\* built, chained and handed to the store in one synchronous run (calls
\* started without awaiting one another read the same clock value)
LogCall(c, ev) ==
  /\ pc[c] = "idle"
  /\ IF c = 1 THEN TRUE ELSE pc[c - 1] # "idle"
  /\ LET entry == BuildEntry(c, ev, now)
         waits == config.store = "file" /\ WriteFlushes(entry)
     IN /\ chain' = IF chain.isNull THEN chain ELSE addEntry(chain, entry).chain
        /\ logEntry' = [logEntry EXCEPT ![c] = entry]
        /\ produced' = Append(produced, entry)
        /\ IF config.store = "memory"
             THEN /\ entries' = MemoryStoreWrite(entries, MemMaxSize, entry)
                  /\ UNCHANGED <<buffer, appends>>
             ELSE /\ FileStoreWrite(entry, Owner("log", c))
                  /\ UNCHANGED entries
        /\ pc' = [pc EXCEPT ![c] = IF waits THEN "awaitStore" ELSE "storeResolved"]
        /\ storeDone' = IF waits THEN storeDone ELSE storeDone \cup {c}
  /\ UNCHANGED <<opVars, now, held, tampered, file, flushTimer, appendFailed, unsurfaced,
                 callVars, config, sinkState, sinkCalls>>

\* log resumes after the store write: this.sinkWriter.write(entry) invokes
\* the sinks and awaits Promise.allSettled
LogSinks(c, outcomes) ==
  /\ pc[c] = "storeResolved"
  /\ \A s \in SinkIds : outcomes[s] \in SinkOutcomes(ConfiguredSinks[s])
  /\ LET r == InvokeSinks(sinkCalls[c], outcomes)
     IN /\ sinkState' = [sinkState EXCEPT ![c] = r.state]
        /\ sinkCalls' = [sinkCalls EXCEPT ![c] = r.calls]
  /\ pc' = [pc EXCEPT ![c] = "awaitSinks"]
  /\ UNCHANGED <<opVars, chainVars, entries, fileVars, callVars, config, logEntry, storeDone>>

\* a pending sink promise settles
SinkSettle(c, s, outcome) ==
  /\ sinkState[c][s] = "pending"
  /\ sinkState' = [sinkState EXCEPT ![c][s] = outcome]
  /\ UNCHANGED <<opVars, chainVars, entries, fileVars, callVars, config, pc, logEntry,
                 storeDone, sinkCalls>>

\* Promise.allSettled has resolved: log returns the entry
LogReturn(c) ==
  /\ pc[c] = "awaitSinks"
  /\ AllSettled(sinkState[c])
  /\ pc' = [pc EXCEPT ![c] = "resolved"]
  /\ UNCHANGED <<opVars, chainVars, entries, fileVars, callVars, config, logEntry,
                 storeDone, sinkState, sinkCalls>>

Next ==
  \/ \E c \in Logs, ev \in LogEvents : LogCall(c, ev)
  \/ \E c \in Logs, o \in [SinkIds -> {"pending", "fulfilled", "rejected"}] : LogSinks(c, o)
  \/ \E c \in Logs, s \in SinkIds, o \in {"fulfilled", "rejected"} : SinkSettle(c, s, o)
  \/ \E c \in Logs : LogReturn(c)
  \/ TimerFlush
  \/ \E a \in appends : AppendDone(a)
  \/ \E a \in appends : AppendFail(a)

Spec == Init /\ [][Next]_vars

\* ------------------------------------------- MemoryStore called directly
MaxMemWrites == 3      \* MemoryStore.write calls
MaxCapacity == 3       \* largest maxSize a store is constructed with
NumMemEvents == 3      \* distinct events written to the store
MaxActiveFilters == 2  \* filter fields set in one query
MaxPage == 3           \* largest limit and offset passed to query

\* events as log() stores them: type, action, outcome, the optional
\* description, actor and resource in shorthand and as objects, tags
\* (a missing string is "", a missing text or list is <<>>)
EventPool ==
  << [type |-> "auth", action |-> <<"a", "b">>, outcome |-> "success",
      description |-> <<>>, actorId |-> "u1", actor |-> [id |-> "u1"],
      resourceType |-> "doc", resourceId |-> "r1",
      resource |-> [id |-> "r1", type |-> "doc"], tags |-> <<"t1">>],
     [type |-> "system", action |-> <<"B">>, outcome |-> "failure",
      description |-> <<"x", "A", "b">>, actorId |-> "", actor |-> [id |-> "u2"],
      resourceType |-> "", resourceId |-> "",
      resource |-> [id |-> "r2", type |-> "doc"], tags |-> <<>>],
     [type |-> "auth", action |-> <<"c">>, outcome |-> "failure",
      description |-> <<"c">>, actorId |-> "", actor |-> [id |-> ""],
      resourceType |-> "", resourceId |-> "",
      resource |-> [id |-> "", type |-> ""], tags |-> <<"t2", "t1">>],
     [type |-> "custom", action |-> <<"b", "a">>, outcome |-> "success",
      description |-> <<>>, actorId |-> "u2", actor |-> [id |-> "u1"],
      resourceType |-> "img", resourceId |-> "r2",
      resource |-> [id |-> "r1", type |-> "doc"], tags |-> <<"t2">>] >>

MemEvents == {EventPool[k] : k \in 1..NumMemEvents}

\* the filter fields of an AuditQuery and the values the modelled queries
\* give them
FilterFields ==
  {"timeStart", "timeEnd", "eventTypes", "actions", "outcomes", "actorIds",
   "resourceTypes", "resourceIds", "tags", "search"}

FilterValues(field) ==
  CASE field = "timeStart" -> {{1}}
    [] field = "timeEnd" -> {{1}}
    [] field = "eventTypes" -> {<<"auth">>, <<"system", "auth">>}
    [] field = "actions" -> {<< <<"a", "b">> >>}
    [] field = "outcomes" -> {<<"failure">>}
    [] field = "actorIds" -> {<<"u1">>}
    [] field = "resourceTypes" -> {<<"doc">>}
    [] field = "resourceIds" -> {<<"r2", "r1">>}
    [] field = "tags" -> {<<"t1">>}
    [] field = "search" -> {<<"A", "b">>}

\* the queries that set at most n filter fields
RECURSIVE QueriesWithFilters(_)
QueriesWithFilters(n) ==
  IF n = 0 THEN {NoQuery}
  ELSE LET fewer == QueriesWithFilters(n - 1)
       IN fewer \cup UNION {{[q EXCEPT ![f] = v] : v \in FilterValues(f), q \in fewer} :
                            f \in FilterFields}

FilterQueries == QueriesWithFilters(MaxActiveFilters)

\* the queries that set order and page, with or without a filter
PageQueries ==
  {[NoQuery EXCEPT !.eventTypes = t, !.sort = so, !.limit = l, !.offset = o] :
     t \in {<<>>, <<"auth">>},
     so \in {{}, {"asc"}, {"desc"}},
     l \in {{}} \cup {{n} : n \in 0..MaxPage},
     o \in {{}} \cup {{n} : n \in 0..MaxPage}}

\* new MemoryStore(maxSize)
InitMemory ==
  /\ now = 0
  /\ chain = NullChain
  /\ produced = <<>>
  /\ held = <<>>
  /\ tampered = 0
  /\ IdleStores
  /\ IdleLogger
  /\ edits = 0
  /\ lastOp = "none"
  /\ saved = NoState
  /\ storeMaxSize \in 0..MaxCapacity
  /\ lastQuery = NoQuery
  /\ lastResult = NoResult
  /\ damaged = <<>>
  /\ logged = <<>>
  /\ compliance = NoCompliance
  /\ plainLogger = NoLogger

\* store.write(entry) with a new entry (the caller drops the result of
\* an earlier query)
MemWrite(ev, dt) ==
  /\ Len(produced) < MaxMemWrites
  /\ now + dt <= MaxTime
  /\ LET entry == [id |-> Len(produced) + 1, timestamp |-> now + dt, event |-> ev,
                   chain |-> NoChain]
     IN /\ entries' = MemoryStoreWrite(entries, storeMaxSize, entry)
        /\ produced' = Append(produced, entry)
  /\ now' = now + dt
  /\ lastOp' = "write"
  /\ lastQuery' = NoQuery
  /\ lastResult' = NoResult
  /\ UNCHANGED <<chain, held, tampered, fileVars, callVars, logVars,
                 edits, saved, storeMaxSize, compliance, plainLogger, damaged, logged>>

\* store.query(q), once for each state of the store: the store being
\* unchanged, a second query finds what it would have found as the first
MemQuery(q) ==
  /\ lastOp # "query"
  /\ lastQuery' = q
  /\ lastResult' = MemoryStoreQuery(entries, q)
  /\ lastOp' = "query"
  /\ UNCHANGED <<chainVars, entries, fileVars, callVars, logVars,
                 edits, saved, storeMaxSize, compliance, plainLogger, damaged, logged>>

NextMemory ==
  \/ \E ev \in MemEvents, dt \in {0, 1} : MemWrite(ev, dt)
  \/ \E q \in FilterQueries \cup PageQueries : MemQuery(q)

SpecMemory == InitMemory /\ [][NextMemory]_vars

\* ------------------------------- AuditLogger operations, one after another
\* A caller that awaits every call: each operation runs to its end before
\* the next starts. The logger has a memory store.

\* Partial<AuditConfig> passed to setConfig: hashChain and hashAlgorithm,
\* each given or not
Partials ==
  {[hashChain |-> h, hashAlgorithm |-> a] :
     h \in {{}, {TRUE}, {FALSE}}, a \in {{}} \cup {{x} : x \in Algorithms}}

\* mergeAuditConfig({ ...this.config, ...config })
MergeConfig(cfg, partial) ==
  [cfg EXCEPT
     !.hashChain = IF partial.hashChain = {} THEN cfg.hashChain
                   ELSE CHOOSE h \in partial.hashChain : TRUE,
     !.hashAlgorithm = IF partial.hashAlgorithm = {} THEN cfg.hashAlgorithm
                       ELSE CHOOSE a \in partial.hashAlgorithm : TRUE]

\* setConfig: this.chain afterwards
ChainAfterSetConfig(ch, merged, partial) ==
  IF partial.hashChain = {} THEN ch
  ELSE IF TRUE \in partial.hashChain THEN NewHashChain(merged.hashAlgorithm)
  ELSE NullChain

InitOps ==
  /\ now = 0
  /\ \E h \in BOOLEAN, a \in Algorithms :
       /\ config = [hashChain |-> h, hashAlgorithm |-> a, store |-> "memory"]
       /\ chain = IF h THEN NewHashChain(a) ELSE NullChain
  /\ produced = <<>>
  /\ held = <<>>
  /\ tampered = 0
  /\ IdleStores
  /\ IdleOps
  /\ pc = [c \in Logs |-> "idle"]
  /\ logEntry = [c \in Logs |-> [id |-> 0, timestamp |-> 0, event |-> 1, chain |-> NoChain]]
  /\ storeDone = {}
  /\ sinkState = [c \in Logs |-> [s \in SinkIds |-> "notcalled"]]
  /\ sinkCalls = [c \in Logs |-> [s \in SinkIds |-> 0]]

\* await log(event), also through success() and failure(): the entry is
\* built, chained, written to the store and handed to every sink
OpLog(ev, dt) ==
  /\ Len(produced) < MaxLogs
  /\ now + dt <= MaxTime
  /\ LET c == Len(produced) + 1
         entry == BuildEntry(c, ev, now + dt)
         r == InvokeSinks(sinkCalls[c], [s \in SinkIds |-> "fulfilled"])
     IN /\ chain' = IF chain.isNull THEN chain ELSE addEntry(chain, entry).chain
        /\ entries' = MemoryStoreWrite(entries, storeMaxSize, entry)
        /\ produced' = Append(produced, entry)
        /\ logEntry' = [logEntry EXCEPT ![c] = entry]
        /\ storeDone' = storeDone \cup {c}
        /\ sinkState' = [sinkState EXCEPT ![c] = r.state]
        /\ sinkCalls' = [sinkCalls EXCEPT ![c] = r.calls]
        /\ pc' = [pc EXCEPT ![c] = "resolved"]
  /\ now' = now + dt
  /\ lastOp' = "log"
  /\ lastQuery' = NoQuery
  /\ lastResult' = NoResult
  /\ UNCHANGED <<held, tampered, fileVars, callVars, config, edits, saved, storeMaxSize,
                 compliance, plainLogger, damaged, logged>>

\* await query(q)
OpQuery(q) ==
  /\ lastQuery' = q
  /\ lastResult' = MemoryStoreQuery(entries, q)
  /\ lastOp' = "query"
  /\ UNCHANGED <<chainVars, entries, fileVars, callVars, logVars, edits, saved, storeMaxSize,
                 compliance, plainLogger, damaged, logged>>

\* verifyChain(entries): the result is computed from the list and the
\* chain's algorithm, nothing is assigned
OpVerifyChain ==
  /\ lastOp' = "verifyChain"
  /\ UNCHANGED <<chainVars, entries, fileVars, callVars, logVars,
                 edits, saved, storeMaxSize, compliance, plainLogger,
                 damaged, logged, lastQuery, lastResult>>

\* await export(filePath, entries, format): a file of its own is written
OpExport ==
  /\ lastOp' = "export"
  /\ UNCHANGED <<chainVars, entries, fileVars, callVars, logVars,
                 edits, saved, storeMaxSize, compliance, plainLogger,
                 damaged, logged, lastQuery, lastResult>>

\* setConfig(partial)
OpSetConfig(partial) ==
  /\ config' = MergeConfig(config, partial)
  /\ chain' = ChainAfterSetConfig(chain, MergeConfig(config, partial), partial)
  /\ lastOp' = "setConfig"
  /\ UNCHANGED <<now, produced, held, tampered, entries, fileVars, callVars,
                 pc, logEntry, storeDone, sinkState, sinkCalls,
                 edits, saved, storeMaxSize, compliance, plainLogger,
                 damaged, logged, lastQuery, lastResult>>

\* setStore(new MemoryStore(maxSize))
OpSetStore ==
  /\ entries' = <<>>
  /\ lastOp' = "setStore"
  /\ UNCHANGED <<chainVars, fileVars, callVars, logVars,
                 edits, saved, storeMaxSize, compliance, plainLogger,
                 damaged, logged, lastQuery, lastResult>>

\* await close(): this.store.close()
OpClose ==
  /\ entries' = MemoryStoreClose(entries)
  /\ lastOp' = "close"
  /\ UNCHANGED <<chainVars, fileVars, callVars, logVars,
                 edits, saved, storeMaxSize, compliance, plainLogger,
                 damaged, logged, lastQuery, lastResult>>

NextOps ==
  \/ \E ev \in LogEvents, dt \in {0, 1} : OpLog(ev, dt)
  \/ \E q \in {NoQuery, [NoQuery EXCEPT !.limit = {1}]} : OpQuery(q)
  \/ OpVerifyChain
  \/ OpExport
  \/ \E partial \in Partials : OpSetConfig(partial)
  \/ OpSetStore
  \/ OpClose

SpecOps == InitOps /\ [][NextOps]_vars

\* --------------------------------- FileStore.query on a file with bad lines
\* A FileStore whose appends have completed, the file it reads back, and
\* lines of that file that something other than the store has rewritten.

MaxLines == 3

\* what a line of the file can hold: the JSON the store appended; text that
\* is not JSON (a truncated or overwritten line); the JSON value null; a
\* JSON object that has the entry's id and timestamp but no event
LineKinds == {"intact", "notJson", "null", "noEvent"}

\* e.event of an object parsed from a line without an event: undefined
NoEvent == [missing |-> TRUE]

\* Date.prototype.toJSON and new Date(string): the ISO text of a timestamp
DateToJSON(t) == <<"iso", t>>
DateFromJSON(text) == text[2]

\* JSON.stringify(e): the timestamp becomes its ISO text
Stringify(e) == [e EXCEPT !.timestamp = DateToJSON(e.timestamp)]

\* the body of the loop over the lines: JSON.parse(line), the timestamp made
\* a Date again, the entry pushed; a throw inside the try skips the line.
\* JSON.parse throws on text that is not JSON, the assignment to
\* entry.timestamp throws on null, nothing throws on an object without event
ParseLine(e, kind) ==
  LET line == Stringify(e)
      entry == [line EXCEPT !.timestamp = DateFromJSON(line.timestamp)]
  IN CASE kind = "intact" -> {entry}
       [] kind = "notJson" -> {}
       [] kind = "null" -> {}
       [] kind = "noEvent" -> {[entry EXCEPT !.event = NoEvent]}

\* const entries = []; for (const line of lines) { try { ... } catch {} }
RECURSIVE ReadLines(_, _)
ReadLines(lines, kinds) ==
  IF lines = <<>> THEN <<>>
  ELSE LET parsed == ParseLine(Head(lines), Head(kinds))
           rest == ReadLines(Tail(lines), Tail(kinds))
       IN IF parsed = {} THEN rest ELSE <<CHOOSE e \in parsed : TRUE>> \o rest

\* new MemoryStore(entries.length), then memStore.write(entry) for each
RECURSIVE LoadMemoryStore(_, _, _)
LoadMemoryStore(list, maxSize, loaded) ==
  IF list = <<>> THEN loaded
  ELSE LoadMemoryStore(Tail(list), maxSize, MemoryStoreWrite(loaded, maxSize, Head(list)))

\* MemoryStore.query throws a TypeError when a filter reads a member of
\* e.event and e.event is undefined: every filter but the two on the time
\* range does, on each entry the time range has kept
QueryThrows(list, q) ==
  LET inRange == FilterEntries(list, [NoQuery EXCEPT !.timeStart = q.timeStart,
                                                     !.timeEnd = q.timeEnd])
      readsEvent ==
        \/ Len(q.eventTypes) # 0 \/ Len(q.actions) # 0 \/ Len(q.outcomes) # 0
        \/ Len(q.actorIds) # 0 \/ Len(q.resourceTypes) # 0 \/ Len(q.resourceIds) # 0
        \/ Len(q.tags) # 0 \/ Len(q.search) # 0
  IN readsEvent /\ \E k \in 1..Len(inRange) : inRange[k].event = NoEvent

\* FileStore.query(q) once the buffer is flushed: whether the promise
\* rejects, and the AuditQueryResult when it does not
FileStoreQuery(lines, kinds, q) ==
  LET read == ReadLines(lines, kinds)
      loaded == LoadMemoryStore(read, Len(read), <<>>)
  IN IF QueryThrows(loaded, q)
       THEN [rejected |-> TRUE, result |-> NoResult]
       ELSE [rejected |-> FALSE, result |-> MemoryStoreQuery(loaded, q)]

\* the queries read back: without filter, by event type, by time, by both
ReadQueries ==
  {[NoQuery EXCEPT !.eventTypes = t, !.timeStart = s] :
     t \in {<<>>, <<"auth">>}, s \in {{}, {1}}}

InitRead ==
  /\ now = 0
  /\ chain = NullChain
  /\ produced = <<>>
  /\ held = <<>>
  /\ tampered = 0
  /\ IdleStores
  /\ IdleLogger
  /\ IdleOps

\* store.write(entry) on a FileStore with bufferSize 1, up to the end of
\* its append: the entry is the last line of the file
StoreLine(ev, dt) ==
  /\ Len(file) < MaxLines
  /\ now + dt <= MaxTime
  /\ LET entry == [id |-> Len(produced) + 1, timestamp |-> now + dt, event |-> ev,
                   chain |-> NoChain]
     IN /\ file' = Append(file, entry)
        /\ produced' = Append(produced, entry)
  /\ damaged' = Append(damaged, "intact")
  /\ now' = now + dt
  /\ lastOp' = "write"
  /\ lastQuery' = NoQuery
  /\ lastResult' = NoResult
  /\ UNCHANGED <<chain, held, tampered, entries, buffer, appends, flushTimer, appendFailed,
                 unsurfaced, callVars, logVars, edits, saved, storeMaxSize, compliance, plainLogger,
                 logged>>

\* a line of the file is rewritten from outside the store
DamageLine(i, kind) ==
  /\ i \in 1..Len(file)
  /\ damaged[i] = "intact"
  /\ kind # "intact"
  /\ damaged' = [damaged EXCEPT ![i] = kind]
  /\ lastOp' = "damage"
  /\ lastQuery' = NoQuery
  /\ lastResult' = NoResult
  /\ UNCHANGED <<chainVars, entries, fileVars, callVars, logVars, edits, saved,
                 storeMaxSize, compliance, plainLogger, logged>>

\* store.query(q), once for each state of the file
ReadQuery(q) ==
  /\ lastOp \notin {"query", "queryRejected"}
  /\ LET r == FileStoreQuery(file, damaged, q)
     IN /\ lastOp' = IF r.rejected THEN "queryRejected" ELSE "query"
        /\ lastResult' = r.result
  /\ lastQuery' = q
  /\ UNCHANGED <<chainVars, entries, fileVars, callVars, logVars, edits, saved,
                 storeMaxSize, compliance, plainLogger, damaged, logged>>

NextRead ==
  \/ \E ev \in {EventPool[1], EventPool[2]}, dt \in {0, 1} : StoreLine(ev, dt)
  \/ \E i \in 1..MaxLines, kind \in LineKinds : DamageLine(i, kind)
  \/ \E q \in ReadQueries : ReadQuery(q)

SpecRead == InitRead /\ [][NextRead]_vars

\* ------------------------------------- AuditLogger.log on raw AuditEvents
\* The events a caller passes to log(): actor and resource as objects
\* (absent: {}), and the shorthand fields (absent: "").

RawEvents ==
  {[type |-> "auth", action |-> <<"a">>, outcome |-> "success",
    actor |-> a, actorId |-> sa[1], actorType |-> sa[2], actorIp |-> sa[3],
    resource |-> r, resourceId |-> sr[1], resourceType |-> sr[2]] :
     a \in {{}, {[id |-> "u1", type |-> "user", ip |-> ""]}},
     sa \in {<<"", "", "">>, <<"u2", "service", "10.0.0.1">>},
     r \in {{}, {[id |-> "r1", type |-> "doc"]}},
     sr \in {<<"", "">>, <<"r2", "img">>}}

\* a plausible slip: a shorthand field that is given replaces the object
NormalizeEventShorthandWins(raw) ==
  [raw EXCEPT
     !.actor = IF raw.actor # {} /\ raw.actorId = "" THEN CHOOSE a \in raw.actor : TRUE
               ELSE [id |-> raw.actorId, type |-> raw.actorType, ip |-> raw.actorIp],
     !.resource = IF raw.resource # {} /\ raw.resourceId = ""
                    THEN CHOOSE r \in raw.resource : TRUE
                  ELSE [id |-> raw.resourceId, type |-> raw.resourceType]]

\* the event of the entry log() builds: { ...event, actor: event.actor ??
\* {id, type, ip from the shorthand}, resource: event.resource ?? {id, type} }
NormalizeEvent(raw) ==
  [raw EXCEPT
     !.actor = IF raw.actor # {} THEN CHOOSE a \in raw.actor : TRUE
               ELSE [id |-> raw.actorId, type |-> raw.actorType, ip |-> raw.actorIp],
     !.resource = IF raw.resource # {} THEN CHOOSE r \in raw.resource : TRUE
                  ELSE [id |-> raw.resourceId, type |-> raw.resourceType]]

\* await logger.log(raw), to its end, on a logger with a memory store
LogRaw(raw) ==
  /\ Len(produced) < MaxLogs
  /\ LET c == Len(produced) + 1
         entry == BuildEntry(c, NormalizeEvent(raw), now)
         r == InvokeSinks(sinkCalls[c], [s \in SinkIds |-> "fulfilled"])
     IN /\ chain' = IF chain.isNull THEN chain ELSE addEntry(chain, entry).chain
        /\ entries' = MemoryStoreWrite(entries, storeMaxSize, entry)
        /\ produced' = Append(produced, entry)
        /\ logEntry' = [logEntry EXCEPT ![c] = entry]
        /\ storeDone' = storeDone \cup {c}
        /\ sinkState' = [sinkState EXCEPT ![c] = r.state]
        /\ sinkCalls' = [sinkCalls EXCEPT ![c] = r.calls]
        /\ pc' = [pc EXCEPT ![c] = "resolved"]
  /\ logged' = Append(logged, raw)
  /\ lastOp' = "log"
  /\ UNCHANGED <<now, held, tampered, fileVars, callVars, config, edits, saved,
                 storeMaxSize, compliance, plainLogger, lastQuery, lastResult, damaged>>

NextNormalize == \E raw \in RawEvents : LogRaw(raw)

SpecNormalize == InitOps /\ [][NextNormalize]_vars

\* ------------------------------------------------- compliance presets
\* An AuditConfig, whole or partial, is a function from field names to
\* values; a field that an object literal does not name is not in its domain.

\* defaultAuditConfig (the fields read from the environment have the
\* values of an empty environment; signingKey undefined is "")
defaultAuditConfig ==
  [enableStructured |-> TRUE, hashChain |-> FALSE, hashAlgorithm |-> "sha256",
   serviceName |-> "unknown", serviceVersion |-> "0.0.0", environment |-> "development",
   retentionDays |-> 365, enableSignatures |-> FALSE, signingKey |-> "",
   sinks |-> <<[type |-> "console"]>>, includeStackTraces |-> TRUE, autoDelete |-> FALSE,
   bufferSize |-> 100, flushInterval |-> 1000]

Compliances == {"SOC2", "HIPAA", "PCI_DSS", "GDPR", "FEDRAMP"}

compliancePresets ==
  [SOC2 |-> [hashChain |-> TRUE, hashAlgorithm |-> "sha256", retentionDays |-> 365,
             enableSignatures |-> FALSE, autoDelete |-> FALSE],
   HIPAA |-> [hashChain |-> TRUE, hashAlgorithm |-> "sha512", retentionDays |-> 365 * 6,
              enableSignatures |-> TRUE, autoDelete |-> FALSE],
   PCI_DSS |-> [hashChain |-> TRUE, hashAlgorithm |-> "sha256", retentionDays |-> 365,
                enableSignatures |-> FALSE, autoDelete |-> FALSE],
   GDPR |-> [hashChain |-> TRUE, hashAlgorithm |-> "sha256", retentionDays |-> 90,
             enableSignatures |-> FALSE, autoDelete |-> TRUE],
   FEDRAMP |-> [hashChain |-> TRUE, hashAlgorithm |-> "sha512", retentionDays |-> 365 * 3,
                enableSignatures |-> TRUE, autoDelete |-> FALSE]]

\* { ...a, ...b }: the fields of both, those of b winning
Spread(a, b) ==
  [f \in DOMAIN a \cup DOMAIN b |-> IF f \in DOMAIN b THEN b[f] ELSE a[f]]

\* a plausible slip: the preset is spread last and wins over the overrides
withCompliancePresetLast(c, overrides) ==
  Spread(Spread(defaultAuditConfig, overrides), compliancePresets[c])

\* withCompliance(compliance, overrides = {})
withCompliance(c, overrides) ==
  Spread(Spread(defaultAuditConfig, compliancePresets[c]), overrides)

\* the fields the modelled callers override, and the values they give
OverrideFields ==
  {"hashChain", "hashAlgorithm", "retentionDays", "enableSignatures", "autoDelete",
   "sinks", "serviceName"}

OverrideValues(field) ==
  CASE field = "hashChain" -> {TRUE, FALSE}
    [] field = "hashAlgorithm" -> {"sha256", "sha512"}
    [] field = "retentionDays" -> {30}
    [] field = "enableSignatures" -> {TRUE, FALSE}
    [] field = "autoDelete" -> {TRUE, FALSE}
    [] field = "sinks" -> {<<[type |-> "file"]>>}
    [] field = "serviceName" -> {"billing"}

\* the Partial<AuditConfig> objects over the given fields
RECURSIVE OverridesOf(_)
OverridesOf(fields) ==
  IF fields = {} THEN {<<>>}
  ELSE LET f == CHOOSE x \in fields : TRUE
           rest == OverridesOf(fields \ {f})
       IN rest \cup {Spread(ov, [x \in {f} |-> v]) : v \in OverrideValues(f), ov \in rest}

\* before AuditLogger.withCompliance(preset, overrides) is called
InitCompliance ==
  /\ now = 0
  /\ config = defaultAuditConfig
  /\ chain = NullChain
  /\ produced = <<>>
  /\ held = <<>>
  /\ tampered = 0
  /\ IdleStores
  /\ edits = 0
  /\ lastOp = "none"
  /\ saved = NoState
  /\ storeMaxSize = MemMaxSize
  /\ lastQuery = NoQuery
  /\ lastResult = NoResult
  /\ damaged = <<>>
  /\ logged = <<>>
  /\ \E c \in Compliances, ov \in OverridesOf(OverrideFields) :
       compliance = [preset |-> c, overrides |-> ov]
  /\ plainLogger = NoLogger
  /\ pc = [c \in Logs |-> "idle"]
  /\ logEntry = [c \in Logs |-> [id |-> 0, timestamp |-> 0, event |-> 1, chain |-> NoChain]]
  /\ storeDone = {}
  /\ sinkState = [c \in Logs |-> [s \in SinkIds |-> "notcalled"]]
  /\ sinkCalls = [c \in Logs |-> [s \in SinkIds |-> 0]]

\* AuditLogger.withCompliance: new AuditLogger(withCompliance(compliance,
\* overrides)); the constructor makes the chain the config asks for
WithCompliance ==
  /\ lastOp = "none"
  /\ LET built == withCompliance(compliance.preset, compliance.overrides)
     IN /\ config' = built
        /\ chain' = IF built.hashChain THEN NewHashChain(built.hashAlgorithm) ELSE NullChain
  /\ lastOp' = "withCompliance"
  /\ UNCHANGED <<now, produced, held, tampered, entries, fileVars, callVars, pc, logEntry,
                 storeDone, sinkState, sinkCalls, edits, saved, storeMaxSize, compliance,
                 plainLogger, damaged, logged, lastQuery, lastResult>>

NextCompliance == WithCompliance

SpecCompliance == InitCompliance /\ [][NextCompliance]_vars

\* ------------------------------------------------------ the plain Logger
MaxPlainCalls == 3
BatchMaxSize == 2

\* enum LogLevel
LogLevel ==
  [TRACE |-> 0, DEBUG |-> 1, INFO |-> 2, NOTICE |-> 3, WARN |-> 4, ERROR |-> 5,
   AUDIT |-> 6, SILENT |-> 7]

LogLevels == {LogLevel[n] : n \in DOMAIN LogLevel}

\* the levels that have a method: trace() ... error(), audit()
MethodLevels == LogLevels \ {LogLevel.SILENT}

\* config.sampleRate, in hundredths
SampleRates == {0, 50, 100}

\* shouldLog(level, minLevel)
shouldLog(level, minLevel) == level >= minLevel

\* shouldSample(), given whether the random draw falls below the rate
shouldSample(sampleRate, drawnBelow) ==
  IF sampleRate >= 100 THEN TRUE
  ELSE IF sampleRate <= 0 THEN FALSE
  ELSE drawnBelow

\* Logger.init(config): the singleton's config is replaced; the lines it
\* has written are on the output
InitPlain ==
  /\ now = 0
  /\ chain = NullChain
  /\ produced = <<>>
  /\ held = <<>>
  /\ tampered = 0
  /\ IdleStores
  /\ IdleLogger
  /\ edits = 0
  /\ lastOp = "none"
  /\ saved = NoState
  /\ storeMaxSize = MemMaxSize
  /\ lastQuery = NoQuery
  /\ lastResult = NoResult
  /\ damaged = <<>>
  /\ logged = <<>>
  /\ compliance = NoCompliance
  /\ \E l \in LogLevels, r \in SampleRates, b \in BOOLEAN :
       plainLogger = [NoLogger EXCEPT !.level = l, !.sampleRate = r, !.batchWrites = b]

\* processLog(level, message, data): the level check, the sampling (not
\* for AUDIT and ERROR), then the batch or the direct write;
\* scheduleBatchFlush flushes a full batch at once and else sets the timer
ProcessLog(level, drawnBelow) ==
  /\ plainLogger.made < MaxPlainCalls
  /\ LET passes ==
           /\ shouldLog(level, plainLogger.level)
           /\ \/ level = LogLevel.AUDIT
              \/ level = LogLevel.ERROR
              \/ shouldSample(plainLogger.sampleRate, drawnBelow)
         batch == Append(plainLogger.batch, level)
         called == [plainLogger EXCEPT !.made = @ + 1, !.call = level, !.wrote = 0]
     IN plainLogger' =
          IF ~passes THEN called
          ELSE IF plainLogger.batchWrites
            THEN IF Len(batch) >= BatchMaxSize
                   THEN [called EXCEPT !.batch = <<>>, !.batchTimeout = FALSE,
                                       !.output = plainLogger.output \o batch,
                                       !.wrote = Len(batch)]
                   ELSE [called EXCEPT !.batch = batch, !.batchTimeout = TRUE]
          ELSE [called EXCEPT !.output = Append(plainLogger.output, level), !.wrote = 1]
  /\ lastOp' = "processLog"
  /\ UNCHANGED <<chainVars, entries, fileVars, callVars, logVars, edits, saved, storeMaxSize,
                 lastQuery, lastResult, damaged, logged, compliance>>

\* the batch timer fires: flushBatch()
FlushBatch ==
  /\ plainLogger.batchTimeout
  /\ plainLogger' = [plainLogger EXCEPT !.batch = <<>>, !.batchTimeout = FALSE,
                                        !.output = plainLogger.output \o plainLogger.batch,
                                        !.call = -1, !.wrote = 0]
  /\ lastOp' = "flushBatch"
  /\ UNCHANGED <<chainVars, entries, fileVars, callVars, logVars, edits, saved, storeMaxSize,
                 lastQuery, lastResult, damaged, logged, compliance>>

NextPlain ==
  \/ \E level \in MethodLevels, drawnBelow \in BOOLEAN : ProcessLog(level, drawnBelow)
  \/ FlushBatch

SpecPlain == InitPlain /\ [][NextPlain]_vars

\* --------------------------------- log() on a store whose write can reject
\* A logger with a FileStore of bufferSize 1, its calls awaited one after
\* the other: every write flushes, and rejects when the appendFile fails.

InitReject ==
  /\ now = 0
  /\ \E h \in BOOLEAN, a \in Algorithms :
       /\ config = [hashChain |-> h, hashAlgorithm |-> a, store |-> "file"]
       /\ chain = IF h THEN NewHashChain(a) ELSE NullChain
  /\ produced = <<>>
  /\ held = <<>>
  /\ tampered = 0
  /\ IdleStores
  /\ IdleOps
  /\ pc = [c \in Logs |-> "idle"]
  /\ logEntry = [c \in Logs |-> [id |-> 0, timestamp |-> 0, event |-> 1, chain |-> NoChain]]
  /\ storeDone = {}
  /\ sinkState = [c \in Logs |-> [s \in SinkIds |-> "notcalled"]]
  /\ sinkCalls = [c \in Logs |-> [s \in SinkIds |-> 0]]

\* await log(ev) when the append succeeds: the entry is chained, appended
\* to the file and sent to the sinks
LogPersisted(ev, dt) ==
  /\ Len(produced) < MaxLogs
  /\ now + dt <= MaxTime
  /\ LET c == Len(produced) + 1
         entry == BuildEntry(c, ev, now + dt)
         r == InvokeSinks(sinkCalls[c], [s \in SinkIds |-> "fulfilled"])
     IN /\ chain' = IF chain.isNull THEN chain ELSE addEntry(chain, entry).chain
        /\ file' = Append(file, entry)
        /\ produced' = Append(produced, entry)
        /\ logEntry' = [logEntry EXCEPT ![c] = entry]
        /\ storeDone' = storeDone \cup {c}
        /\ sinkState' = [sinkState EXCEPT ![c] = r.state]
        /\ sinkCalls' = [sinkCalls EXCEPT ![c] = r.calls]
        /\ pc' = [pc EXCEPT ![c] = "resolved"]
  /\ now' = now + dt
  /\ lastOp' = "log"
  /\ UNCHANGED <<held, tampered, entries, buffer, appends, flushTimer, appendFailed,
                 unsurfaced, callVars, config, edits, saved, storeMaxSize, compliance,
                 plainLogger, damaged, logged, lastQuery, lastResult>>

\* a plausible slip: the chain is put back when the write rejects
LogRejectedRolledBack(ev, dt) ==
  /\ Len(produced) < MaxLogs
  /\ now + dt <= MaxTime
  /\ LET c == Len(produced) + 1
         entry == BuildEntry(c, ev, now + dt)
     IN /\ produced' = Append(produced, entry)
        /\ logEntry' = [logEntry EXCEPT ![c] = entry]
        /\ pc' = [pc EXCEPT ![c] = "rejected"]
  /\ appendFailed' = TRUE
  /\ now' = now + dt
  /\ lastOp' = "logRejected"
  /\ UNCHANGED <<chain, held, tampered, entries, buffer, appends, file, flushTimer,
                 unsurfaced, callVars, config, storeDone, sinkState, sinkCalls, edits,
                 saved, storeMaxSize, compliance, plainLogger, damaged, logged, lastQuery,
                 lastResult>>

\* await log(ev) when the append fails: addEntry has advanced the chain,
\* flush() has emptied the buffer, store.write rejects and log() rejects
\* with it before the sinks are reached
LogRejected(ev, dt) ==
  /\ Len(produced) < MaxLogs
  /\ now + dt <= MaxTime
  /\ LET c == Len(produced) + 1
         entry == BuildEntry(c, ev, now + dt)
     IN /\ chain' = IF chain.isNull THEN chain ELSE addEntry(chain, entry).chain
        /\ produced' = Append(produced, entry)
        /\ logEntry' = [logEntry EXCEPT ![c] = entry]
        /\ pc' = [pc EXCEPT ![c] = "rejected"]
  /\ appendFailed' = TRUE
  /\ now' = now + dt
  /\ lastOp' = "logRejected"
  /\ UNCHANGED <<held, tampered, entries, buffer, appends, file, flushTimer,
                 unsurfaced, callVars, config, storeDone, sinkState, sinkCalls, edits,
                 saved, storeMaxSize, compliance, plainLogger, damaged, logged, lastQuery,
                 lastResult>>

NextReject ==
  \/ \E ev \in LogEvents, dt \in {0, 1} : LogPersisted(ev, dt)
  \/ \E ev \in LogEvents, dt \in {0, 1} : LogRejected(ev, dt)

SpecReject == InitReject /\ [][NextReject]_vars

\* ------------------------------------------------------------------ C1
\* C1: the entries returned by successive addEntry calls on one chain, in
\* call order: the first has sequence 0 and previousHash equal to the
\* genesis digest of the chain's algorithm; every later one has previousHash
\* equal to the preceding entry's hash and sequence one larger.
ChainContiguity ==
  /\ Len(produced) >= 1 =>
       /\ produced[1].chain.sequence = 0
       /\ produced[1].chain.previousHash = computeGenesisHash(chain.algorithm)
  /\ \A i \in 1..(Len(produced) - 1) :
       /\ produced[i + 1].chain.previousHash = produced[i].chain.hash
       /\ produced[i + 1].chain.sequence = produced[i].chain.sequence + 1

ChainContiguityWitness ==
  /\ Len(produced) = MaxEntries
  /\ produced[MaxEntries].chain.sequence = MaxEntries - 1
  /\ produced[MaxEntries].chain.previousHash = produced[MaxEntries - 1].chain.hash

\* ------------------------------------------------------------------ C2
\* position (0-based) of the entry with identity id in sequence order
RECURSIVE IndexOfId(_, _, _)
IndexOfId(s, id, i) ==
  IF i > Len(s) THEN -1 ELSE IF s[i].id = id THEN i - 1 ELSE IndexOfId(s, id, i + 1)

\* C2: when the event content of exactly one entry of a chain-produced
\* list is changed and its stored hash is kept, verifyChain returns
\* valid=false with brokenAt at the position of the changed entry.
TamperDetected ==
  tampered # 0 =>
    LET r == verifyChain(chain.algorithm, held)
    IN /\ r.valid = FALSE
       /\ r.brokenAt = {IndexOfId(SortBySequence(held), tampered, 1)}

\* ------------------------------------------------------------------ C3
\* C3: verifyChain of all the entries one chain produced, none modified,
\* is valid for every order of the input list.
UntamperedValid ==
  (tampered = 0) => verifyChain(chain.algorithm, held).valid

UntamperedValidWitness ==
  /\ tampered = 0
  /\ Len(held) = MaxEntries
  /\ held[1].chain.sequence > held[2].chain.sequence
  /\ verifyChain(chain.algorithm, held).valid

\* ------------------------------------------------------------------ C7
\* C7: the result of a FileStore query holds every entry whose write()
\* had resolved when query() was called.
ReadYourWrites ==
  qpc = "resolved" => qSeen \subseteq qResult

\* ------------------------------------------------------------------ C8
\* C8: when close() has resolved, the flush timer is cancelled and, absent
\* I/O errors, every entry passed to write() before close() was called is
\* in the file.
CloseFlushesAll ==
  (cpc = "resolved" /\ ~appendFailed) =>
     /\ flushTimer = FALSE
     /\ cSeen \subseteq {file[i].id : i \in 1..Len(file)}

\* ------------------------------------------------------------------ C9
\* C9: every failure of a file append rejects a write(), query() or
\* close() call; none goes unreported.
AppendFailureSurfaced ==
  unsurfaced = 0

\* ------------------------------------------------------------------ C4
\* every entry carried by the appendFile calls in progress
RECURSIVE InFlight(_)
InFlight(as) ==
  IF as = {} THEN <<>>
  ELSE LET a == CHOOSE x \in as : TRUE IN a.batch \o InFlight(as \ {a})

IsSuffix(s, t) == Len(s) <= Len(t) /\ s = SubSeq(t, Len(t) - Len(s) + 1, Len(t))

SinksDespiteStoreFailure ==
  \A c \in Logs : pc[c] = "rejected" => \A s \in SinkIds : sinkCalls[c][s] >= 1

\* ------------------------------------------------------------------ C6
\* C6: once SinkWriter.write was called for an entry, every configured sink
\* has been invoked exactly once with it, whatever the other sinks did, and
\* no sink outcome makes log() reject: a rejected log() never reached a sink.
SinkIsolation ==
  \A c \in Logs :
    /\ pc[c] \in {"awaitSinks", "resolved"} => \A s \in SinkIds : sinkCalls[c][s] = 1
    /\ pc[c] \in {"idle", "awaitStore", "storeResolved", "rejected"} =>
         \A s \in SinkIds : sinkCalls[c][s] = 0

SinkIsolationWitness ==
  \E c \in Logs :
    /\ pc[c] = "resolved"
    /\ \A s \in SinkIds : sinkState[c][s] = "rejected" /\ sinkCalls[c][s] = 1

\* ------------------------------------------------------------------ C10
\* C10: log() has resolved only if the store write has completed and every
\* sink write has settled; while a sink write is pending log() is unresolved.
LogAwaitsAll ==
  \A c \in Logs :
    pc[c] = "resolved" =>
      /\ c \in storeDone
      /\ \A s \in SinkIds : sinkState[c][s] \in {"fulfilled", "rejected"}

LogAwaitsAllWitness ==
  \E c \in Logs :
    /\ pc[c] = "awaitSinks"
    /\ c \in storeDone
    /\ sinkState[c][1] = "fulfilled"
    /\ sinkState[c][2] = "pending"

\* ---- C11
\* verifyChain always returns a result: valid for the empty list, not valid
\* for a list holding an entry without chain data; a result that is not
\* valid carries brokenAt and error, a valid one carries neither.
VerifyChainTotal ==
  LET r == verifyChain(chain.algorithm, held)
  IN /\ r.valid \in BOOLEAN
     /\ held = <<>> => r.valid
     /\ (\E i \in 1..Len(held) : ~held[i].chain.present) => ~r.valid
     /\ ~r.valid => Cardinality(r.brokenAt) = 1 /\ Cardinality(r.error) = 1
     /\ r.valid => r.brokenAt = {} /\ r.error = {}

\* an entry without chain data behind two entries that have theirs
VerifyChainTotalWitness ==
  /\ Len(held) = 3
  /\ held[1].chain.present /\ held[2].chain.present /\ ~held[3].chain.present
  /\ ~verifyChain(chain.algorithm, held).valid

\* ---- C12
\* verifyChain reports the first failing check of the list taken in
\* ascending sequence order: a lowest entry of sequence 0 whose link is not
\* the genesis digest at 0, at i >= 1 a link that is not the predecessor's
\* hash (hash mismatch) or, the link matching, a sequence that is not the
\* predecessor's plus one (sequence gap); valid when no check fails.
AllChained(list) == \A i \in 1..Len(list) : list[i].chain.present

Ascending(list) ==
  \A i, j \in 1..Len(list) : i < j => list[i].chain.sequence <= list[j].chain.sequence

SameEntries(a, b) ==
  /\ Len(a) = Len(b)
  /\ \A i \in 1..Len(a) :
       Cardinality({k \in 1..Len(a) : a[k] = a[i]}) = Cardinality({k \in 1..Len(b) : b[k] = a[i]})

\* the check of position i (0-based) of the ordered list fails
CheckFails(ordered, i) ==
  IF i = 0
    THEN /\ ordered[1].chain.sequence = 0
         /\ ordered[1].chain.previousHash # computeGenesisHash(chain.algorithm)
    ELSE \/ ordered[i + 1].chain.previousHash # ordered[i].chain.hash
         \/ ordered[i + 1].chain.sequence # ordered[i].chain.sequence + 1

FailureReason(ordered, i) ==
  IF i = 0 THEN "Invalid genesis hash"
  ELSE IF ordered[i + 1].chain.previousHash # ordered[i].chain.hash THEN "Chain broken"
  ELSE "Sequence gap"

FirstFailureReported ==
  (held # <<>> /\ AllChained(held)) =>
    LET ordered == SortBySequence(held)
        failing == {i \in 0..(Len(held) - 1) : CheckFails(ordered, i)}
        r == verifyChain(chain.algorithm, held)
    IN /\ Ascending(ordered)
       /\ SameEntries(ordered, held)
       /\ IF failing = {} THEN r.valid
          ELSE LET first == CHOOSE i \in failing : \A k \in failing : i <= k
               IN /\ ~r.valid
                  /\ r.brokenAt = {first}
                  /\ r.error = {FailureReason(ordered, first)}

\* a sequence gap behind a matching link, reported at the last entry
FirstFailureReportedWitness ==
  /\ Len(held) = 3
  /\ AllChained(held)
  /\ verifyChain(chain.algorithm, held) = Broken(2, "Sequence gap")

\* ---- C13
\* verifyEntry(e, p) is true exactly for an entry with chain data whose id,
\* timestamp and event are the ones addEntry hashed and for p the link it
\* hashed; false after a change of id, timestamp or event, for any other p
\* and for an entry without chain data.
Original(e) == CHOOSE k \in 1..Len(produced) : produced[k].chain.hash = e.chain.hash

VerifyEntryExact ==
  \A i \in 1..Len(held) : \A p \in HashPool :
    LET e == held[i]
    IN IF ~e.chain.present THEN ~verifyEntry(chain.algorithm, e, p)
       ELSE LET o == produced[Original(e)]
            IN verifyEntry(chain.algorithm, e, p)
                 <=> /\ e.id = o.id
                     /\ e.timestamp = o.timestamp
                     /\ e.event = o.event
                     /\ p = o.chain.previousHash

\* an entry whose timestamp was changed no longer verifies, an untouched
\* one does
VerifyEntryExactWitness ==
  /\ Len(held) = 2 /\ Len(produced) = 2
  /\ held[1] = produced[1]
  /\ verifyEntry(chain.algorithm, held[1], held[1].chain.previousHash)
  /\ held[2].chain = produced[2].chain
  /\ held[2].timestamp # produced[2].timestamp
  /\ ~verifyEntry(chain.algorithm, held[2], held[2].chain.previousHash)

\* ---- C14
\* getState after n addEntry calls returns sequence n and the hash produced
\* last (the genesis digest for n = 0); a fresh chain of the same algorithm
\* restored from that pair continues the chain: verifyChain over all
\* entries, those produced before and after the restart, is valid.
ResumeContinues ==
  /\ saved.present =>
       /\ saved.sequence = saved.after
       /\ saved.previousHash =
            IF saved.after = 0 THEN computeGenesisHash(chain.algorithm)
            ELSE produced[saved.after].chain.hash
  /\ verifyChain(chain.algorithm, produced).valid
  /\ \A k \in 1..Len(produced) : produced[k].chain.sequence = k - 1

\* entries were added before the state was taken and after it was restored
ResumeContinuesWitness ==
  /\ lastOp = "restoreState"
  /\ saved.after >= 1
  /\ Len(produced) > saved.after
  /\ verifyChain(chain.algorithm, produced).valid

\* the ids of a list of entries
IdsOf(list) == {list[k].id : k \in 1..Len(list)}

\* ---- C15
\* A setConfig call that changes the value of the hashChain flag replaces
\* the chain (a fresh chain at genesis and sequence 0, or none); a call
\* that leaves the value as it was keeps previousHash and sequence.
SetConfigKeepsChain ==
  [][lastOp' = "setConfig" =>
       IF config'.hashChain # config.hashChain
         THEN chain' = IF config'.hashChain THEN NewHashChain(config'.hashAlgorithm)
                       ELSE NullChain
         ELSE /\ chain'.previousHash = chain.previousHash
              /\ chain'.sequence = chain.sequence]_vars

\* ---- C16
\* An entry held by the store has the id, timestamp, event and chain
\* values log() returned it with, whatever was called since.
StoredUnchanged ==
  \A i \in 1..Len(entries) :
    /\ entries[i].id \in 1..Len(produced)
    /\ entries[i] = produced[entries[i].id]

\* two entries logged at different times are held, and the logger was
\* reconfigured since
StoredUnchangedWitness ==
  /\ lastOp = "setConfig"
  /\ Len(entries) = 2
  /\ entries[1].timestamp < entries[2].timestamp
  /\ entries[1].chain.present
  /\ ~config.hashChain

\* ---- C17
\* query, verifyChain, export, setConfig and close remove no entry from the
\* memory store: what it held before is returned by an unfiltered query
\* afterwards.
OnlyEvictionRemoves ==
  [][lastOp' \in {"query", "verifyChain", "export", "setConfig", "close"} =>
       IdsOf(entries) \subseteq IdsOf(MemoryStoreQuery(entries', NoQuery).entries)]_vars

\* ---- C18
\* A MemoryStore of maxSize N holds, after any number of writes, exactly
\* the N entries written last (all of them while fewer were written), in
\* write order, and never more than N.
LastWritten(list, n) ==
  IF n >= Len(list) THEN list
  ELSE [k \in 1..n |-> list[Len(list) - n + k]]

EvictionExact ==
  /\ Len(entries) <= storeMaxSize
  /\ entries = LastWritten(produced, storeMaxSize)

\* ---- C19
\* A query with filters returns the entries every filter alone returns
\* (AND across filter fields); a list filter alone returns exactly the
\* entries whose field equals one of the listed values (OR within a field).
ActiveFields(q) == {f \in FilterFields : q[f] # NoQuery[f]}

ListFields ==
  {"eventTypes", "actions", "outcomes", "actorIds", "resourceTypes", "resourceIds", "tags"}

OnlyField(q, f) == [NoQuery EXCEPT ![f] = q[f]]

FieldEquals(e, f, v) ==
  CASE f = "eventTypes" -> e.event.type = v
    [] f = "actions" -> e.event.action = v
    [] f = "outcomes" -> e.event.outcome = v
    [] f = "actorIds" -> e.event.actorId = v \/ e.event.actor.id = v
    [] f = "resourceTypes" -> e.event.resourceType = v \/ e.event.resource.type = v
    [] f = "resourceIds" -> e.event.resourceId = v \/ e.event.resource.id = v
    [] f = "tags" -> \E j \in 1..Len(e.event.tags) : e.event.tags[j] = v

FiltersIntersect ==
  (lastOp = "query" /\ lastQuery.limit = {} /\ lastQuery.offset = {} /\ lastQuery.sort = {}) =>
    LET q == lastQuery
        got == IdsOf(lastResult.entries)
        alone(f) == IdsOf(MemoryStoreQuery(entries, OnlyField(q, f)).entries)
    IN /\ Len(lastResult.entries) = Cardinality(got)
       /\ got = {id \in IdsOf(entries) : \A f \in ActiveFields(q) : id \in alone(f)}
       /\ \A f \in ActiveFields(q) \cap ListFields :
            alone(f) = {entries[i].id : i \in {k \in 1..Len(entries) :
                           \E n \in 1..Len(q[f]) : FieldEquals(entries[k], f, q[f][n])}}

\* two filters, one of them with two values of which the second matches,
\* that together select one of the three entries the first selects alone
FiltersIntersectWitness ==
  /\ lastOp = "query"
  /\ lastQuery.eventTypes = <<"system", "auth">>
  /\ lastQuery.outcomes = <<"failure">>
  /\ Len(lastResult.entries) = 1
  /\ lastResult.entries[1].event.type = "auth"
  /\ Len(MemoryStoreQuery(entries, OnlyField(lastQuery, "eventTypes")).entries) = 3
  /\ Len(MemoryStoreQuery(entries, OnlyField(lastQuery, "outcomes")).entries) = 1

\* ---- C20
\* query returns the positions [offset, offset + limit) of the filtered
\* entries sorted by timestamp (descending unless sort is "asc"), total is
\* the number of filtered entries and hasMore says offset + limit < total;
\* a missing limit is 100, a missing offset 0.
PageOfFull ==
  lastOp = "query" =>
    LET q == lastQuery
        limit == IF q.limit = {} THEN 100 ELSE CHOOSE n \in q.limit : TRUE
        offset == IF q.offset = {} THEN 0 ELSE CHOOSE n \in q.offset : TRUE
        full == MemoryStoreQuery(entries, [q EXCEPT !.limit = {Len(entries)}, !.offset = {0}]).entries
        total == Len(full)
        rest == IF total > offset THEN total - offset ELSE 0
        count == IF limit < rest THEN limit ELSE rest
    IN /\ IdsOf(full) = IdsOf(FilterEntries(entries, q))
       /\ Len(full) = Len(FilterEntries(entries, q))
       /\ \A i, j \in 1..total : i < j =>
            IF q.sort = {"asc"} THEN full[i].timestamp <= full[j].timestamp
            ELSE full[i].timestamp >= full[j].timestamp
       /\ lastResult.total = total
       /\ lastResult.entries = [k \in 1..count |-> full[offset + k]]
       /\ lastResult.hasMore <=> (offset + limit < total)

\* the middle one of three entries of different timestamps, ascending
PageOfFullWitness ==
  /\ lastOp = "query"
  /\ lastQuery.sort = {"asc"} /\ lastQuery.limit = {1} /\ lastQuery.offset = {1}
  /\ lastResult.total = 3
  /\ lastResult.hasMore
  /\ Len(lastResult.entries) = 1
  /\ entries[1].timestamp < entries[2].timestamp /\ entries[2].timestamp < entries[3].timestamp
  /\ lastResult.entries[1] = entries[2]

\* ---- C21
\* Every entry passed to FileStore.write reaches the file without another
\* call of the user, through the flush of a full buffer or of the timer,
\* unless an append fails or close() is called.
EventuallyAppended ==
  \A w \in Writes :
    (wpc[w] # "idle") ~>
      \/ w \in {file[i].id : i \in 1..Len(file)}
      \/ appendFailed
      \/ cpc # "idle"

\* one entry, fewer than bufferSize, is in the file with no query or close
\* called: the timer has flushed it
EventuallyAppendedWitness ==
  /\ BufferSize > 1
  /\ wpc[1] = "resolved"
  /\ \A w \in Writes : w > 1 => wpc[w] = "idle"
  /\ qpc = "idle" /\ cpc = "idle"
  /\ Len(file) = 1 /\ file[1].id = 1

\* ---- C22
\* the lines of the file that still hold what the store appended
IntactLines ==
  LET RECURSIVE Keep(_, _)
      Keep(lines, kinds) ==
        IF lines = <<>> THEN <<>>
        ELSE (IF Head(kinds) = "intact" THEN <<Head(lines)>> ELSE <<>>)
               \o Keep(Tail(lines), Tail(kinds))
  IN Keep(file, damaged)

\* C22: FileStore.query never rejects because of a bad line, and answers
\* as it would on a file made of the good lines alone
MalformedSkipped ==
  /\ lastOp # "queryRejected"
  /\ lastOp = "query" =>
       lastResult = FileStoreQuery(IntactLines, [k \in 1..Len(IntactLines) |-> "intact"],
                                   lastQuery).result

\* C22, for the lines on which the try block throws: such lines alone never
\* change the answer
ThrowingLinesSkipped ==
  (lastOp \in {"query", "queryRejected"}
     /\ \A i \in 1..Len(damaged) : damaged[i] # "noEvent")
  => /\ lastOp = "query"
     /\ lastResult = FileStoreQuery(IntactLines, [k \in 1..Len(IntactLines) |-> "intact"],
                                    lastQuery).result

\* ---- C23
\* C23: the actor of a stored entry is the object the caller passed to
\* log(), whatever the shorthand says, and is made of actorId, actorType
\* and actorIp when no object was passed; the resource likewise
ShorthandNormalized ==
  \A k \in 1..Len(entries) :
    LET stored == entries[k].event
        raw == logged[entries[k].id]
    IN /\ raw.actor # {} => stored.actor \in raw.actor
       /\ raw.actor = {} =>
            stored.actor = [id |-> raw.actorId, type |-> raw.actorType, ip |-> raw.actorIp]
       /\ raw.resource # {} => stored.resource \in raw.resource
       /\ raw.resource = {} =>
            stored.resource = [id |-> raw.resourceId, type |-> raw.resourceType]

\* an object passed together with different shorthand is stored as passed,
\* next to an entry whose actor and resource come from the shorthand
ShorthandNormalizedWitness ==
  /\ Len(entries) = 2
  /\ LET first == logged[entries[1].id]
         second == logged[entries[2].id]
     IN /\ first.actor # {} /\ first.actorId = "u2"
        /\ first.resource # {} /\ first.resourceId = "r2"
        /\ entries[1].event.actor.id = "u1"
        /\ entries[1].event.resource.id = "r1"
        /\ second.actor = {} /\ second.resource = {}
        /\ entries[2].event.actor.id = "u2"
        /\ entries[2].event.resource.type = "img"

\* ---- C24
\* the five fields a preset sets, with the values the presets are said to
\* give them: algorithm, retention in days, signatures, auto-delete
PresetTable ==
  [SOC2 |-> <<"sha256", 365, FALSE, FALSE>>,
   HIPAA |-> <<"sha512", 2190, TRUE, FALSE>>,
   PCI_DSS |-> <<"sha256", 365, FALSE, FALSE>>,
   GDPR |-> <<"sha256", 90, FALSE, TRUE>>,
   FEDRAMP |-> <<"sha512", 1095, TRUE, FALSE>>]

PresetValue(c, field) ==
  CASE field = "hashChain" -> TRUE
    [] field = "hashAlgorithm" -> PresetTable[c][1]
    [] field = "retentionDays" -> PresetTable[c][2]
    [] field = "enableSignatures" -> PresetTable[c][3]
    [] field = "autoDelete" -> PresetTable[c][4]

PresetFields ==
  {"hashChain", "hashAlgorithm", "retentionDays", "enableSignatures", "autoDelete"}

\* C24: each field of the config built by withCompliance is the override
\* when one is given, else the preset's value for the five fields a preset
\* sets (the hash chain always on), else the default
PresetResolution ==
  lastOp = "withCompliance" =>
    /\ DOMAIN config = DOMAIN defaultAuditConfig
    /\ \A f \in DOMAIN config :
         config[f] = IF f \in DOMAIN compliance.overrides THEN compliance.overrides[f]
                     ELSE IF f \in PresetFields THEN PresetValue(compliance.preset, f)
                     ELSE defaultAuditConfig[f]
    /\ \A c \in Compliances : DOMAIN compliancePresets[c] = PresetFields

\* HIPAA with retention and sinks overridden: the override wins for those
\* two, the preset gives sha512 and signatures, the service name is the default
PresetResolutionWitness ==
  /\ lastOp = "withCompliance"
  /\ compliance.preset = "HIPAA"
  /\ DOMAIN compliance.overrides = {"retentionDays", "sinks"}
  /\ config.retentionDays = 30
  /\ config.hashAlgorithm = "sha512"
  /\ config.hashChain
  /\ config.serviceName = "unknown"
  /\ ~chain.isNull

\* ---- C25
\* C25: whatever config.level is, audit() on a Logger that writes directly
\* puts one line on the output, and a call below config.level puts none
AuditAlwaysEmitted ==
  (lastOp = "processLog" /\ ~plainLogger.batchWrites) =>
    /\ plainLogger.call = LogLevel.AUDIT => plainLogger.wrote = 1
    /\ (plainLogger.call # LogLevel.AUDIT /\ plainLogger.call < plainLogger.level) =>
         plainLogger.wrote = 0

\* C25 without the level SILENT: audit() writes its line at every other
\* level, and calls below the level write nothing
AuditEmittedUnlessSilent ==
  (lastOp = "processLog" /\ ~plainLogger.batchWrites) =>
    /\ (plainLogger.call = LogLevel.AUDIT /\ plainLogger.level # LogLevel.SILENT) =>
         plainLogger.wrote = 1
    /\ (plainLogger.call # LogLevel.AUDIT /\ plainLogger.call < plainLogger.level) =>
         plainLogger.wrote = 0

\* ---- C26
\* the chain hashes of the entries the store holds
StoredHashes == {file[k].chain.hash : k \in 1..Len(file)}

\* the last call persisted its entry and the one call before it was rejected
PersistedAfterOneRejection ==
  /\ ~chain.isNull
  /\ Len(produced) >= 2
  /\ pc[Len(produced)] = "resolved"
  /\ pc[Len(produced) - 1] = "rejected"
  /\ Len(produced) >= 3 => pc[Len(produced) - 2] = "resolved"

\* what C26 says of the entry persisted after a rejected one, but for the
\* verdict of verifyChain: the chain has counted the rejected entry, the
\* new entry's sequence is two above that of the store's entry before it,
\* and its previousHash names no stored entry
ChainAdvancedPast ==
  /\ ~chain.isNull => chain.sequence = Len(produced)
  /\ \A c \in Logs : pc[c] = "rejected" => sinkCalls[c] = [s \in SinkIds |-> 0]
  /\ PersistedAfterOneRejection =>
       LET n == Len(file)
       IN /\ file[n].chain.previousHash \notin StoredHashes
          /\ n >= 2 => file[n].chain.sequence = file[n - 1].chain.sequence + 1 + 1

Occurrences(list, w) == Cardinality({k \in 1..Len(list) : list[k].id = w})

\* C27: the entry of every write() that has been called is in exactly one
\* of the buffer, an appendFile in progress and the file
NeverLostNorDuplicated ==
  \A w \in Writes :
    wpc[w] # "idle" =>
      Occurrences(buffer, w) + Occurrences(InFlight(appends), w) + Occurrences(file, w) = 1

\* C27 while no append has failed
NeverLostUntilFailure ==
  ~appendFailed => NeverLostNorDuplicated

\* ---- C28
\* C28: the entries are in the file in the order of their write() calls
FileInWriteOrder ==
  \A i, j \in 1..Len(file) : i < j => file[i].id < file[j].id

\* what does hold of the order: every batch handed to appendFile is in
\* write() order
BatchInWriteOrder ==
  \A a \in appends : \A i, j \in 1..Len(a.batch) : i < j => a.batch[i].id < a.batch[j].id

\* ---- C29
\* C29: the logger has a chain exactly when config.hashChain is set, and
\* the chain hashes with config.hashAlgorithm
ChainAgreesWithConfig ==
  /\ ~chain.isNull <=> config.hashChain
  /\ ~chain.isNull => chain.algorithm = config.hashAlgorithm

\* the half of C29 about the chain's existence
ChainExistsWhenConfigured ==
  ~chain.isNull <=> config.hashChain

\* ---- C30
\* the held list is a run of the chain: entries as addEntry produced them,
\* each once, their sequences without a gap
ContiguousRun ==
  LET seqs == {held[k].chain.sequence : k \in 1..Len(held)}
  IN /\ held # <<>>
     /\ \A k \in 1..Len(held) : \E p \in 1..Len(produced) : held[k] = produced[p]
     /\ Cardinality(seqs) = Len(held)
     /\ \A a, b \in seqs : \A n \in a..b : n \in seqs

\* C30: verifyChain finds every run of an unmodified chain valid, whether
\* or not the run starts at sequence 0
RunVerifies ==
  ContiguousRun => verifyChain(chain.algorithm, held).valid

\* the run of the last two of three entries: the first has been removed
RunVerifiesWitness ==
  /\ Len(produced) = 3
  /\ Len(held) = 2
  /\ ContiguousRun
  /\ \A k \in 1..Len(held) : held[k].chain.sequence >= 1
  /\ verifyChain(chain.algorithm, held).valid

====
